---- MODULE Spec2Model ----
(***************************************************************************)
(* A model of the two data components of the MBTA live map:               *)
(*   TrainPaths        (route-shape loader, src/unnamed/part_001)          *)
(*   LiveTrainMarkers  (live-vehicle poller, src/unnamed/part_000)         *)
(* with their visibility effects and decodePolyline.                       *)
(*                                                                         *)
(* JavaScript runs each callback to completion, so one action is one task  *)
(* of the event loop: everything a handler does between two suspension     *)
(* points (an awaited fetch, an awaited delay, a timer tick, a React       *)
(* render with its effects).                                               *)
(***************************************************************************)
EXTENDS Integers, Sequences, FiniteSets, Bags

\* ---------------------------------------------------------------- bounds
\* The model keeps the first NumLines entries of allLines, in their order.
NumLines == 2
\* At most MaxPasses invocations of loadRoutes are followed.
MaxPasses == 2

\* Vehicle identifiers the API may report.
NumVehicles == 2
\* Longest data array of a vehicles response.
MaxPayload == 1
\* Most vehicle requests awaiting their response at one time.
MaxInFlight == 2
\* Map instances the map prop of LiveTrainMarkers may take.
NumMaps == 2
\* Interval timer handles.
MaxTimers == 2
\* Longest encoded polyline handed to decodePolyline, besides the example.
MaxEncodedLen == 4

\* ------------------------------------------------------ program constants
MAX_RETRIES == 20
INITIAL_RETRY_DELAY == 500

allLines == 1 .. NumLines

NoMap == 0

VARIABLES
  tpMap,           \* TrainPaths' map prop: NoMap or a map instance
  routeDataCache,  \* the routeDataCache state: the contents of its current Map
  sharedWith,      \* the pass whose closure holds that very Map object (0: none)
  renderPending,   \* routeDataCache was set since the last render
  routesLoaded,    \* the routesLoaded state
  passes,          \* the invocations of loadRoutes, in start order
  loadedCalls,     \* number of invocations of onRoutesLoaded
  sources,         \* per line, the data registered under mbta-routes-<line>
  layers,          \* per line, the layers registered under mbta-lines-<line>
  layerStyle       \* per line, the visibility and line-opacity of its layer

VARIABLES
  encoded,         \* the argument of a call of decodePolyline, as char codes
  decoded,         \* that call has returned
  coordinates      \* what it returned, in units of 1e-5 degree

decoderVars == <<encoded, decoded, coordinates>>

loaderVars == <<tpMap, routeDataCache, sharedWith, renderPending, routesLoaded,
                passes, loadedCalls, sources, layers, layerStyle, decoderVars>>

VARIABLES
  ltmMap,          \* LiveTrainMarkers' map prop: NoMap or a map instance
  mounted,         \* LiveTrainMarkers is mounted
  activeFilters,   \* the activeFilters prop (the VisibilityState)
  intervalRef,     \* intervalRef.current: 0 (null) or a timer handle
  timers,          \* the live interval timers: handle -> closure of its callback
  polls,           \* the vehicle requests in flight: closure -> how many
  lastFetchedData, \* lastFetchedData.current
  trainMarkers,    \* trainMarkers.current: vehicle id -> registry entry
  markers,         \* per vehicle id, the Marker objects created for it so far
  lastPoll         \* the vehicles response the step just taken handled, if any

pollerVars == <<ltmMap, mounted, activeFilters, intervalRef, timers, polls,
                lastFetchedData, trainMarkers, markers, lastPoll>>

vars == <<loaderVars, pollerVars>>

\* ------------------------------------------------------------ TrainPaths
\* Every render closes over the Map object that is the state at that time, and
\* the load effect runs at most once per render, so a Map object is held by
\* at most one pass. A pass only calls has() on its Map: its record carries
\* the keys of that Map (cache), and sharedWith tells which pass, if any,
\* holds the state's current object.

\* An empty Map: 0 is "no entry"; a stored value k > 0 is the k-th GeoJSON
\* object built for the line (every successful fetch builds a fresh object).
EmptyCache == [l \in allLines |-> 0]

\* The keys of the Map with contents m.
Keys(m) == {l \in allLines : m[l] # 0}

\* routeDataCache.has(line), on the keys c of the Map the closure holds.
CacheHas(c, line) == line \in c

\* The for-loop of loadRoutes from position i on, with the Map c the pass
\* closed over: fetchAndStoreRoute returns at once for a cached line, so the
\* loop reaches the first line at or after i that c does not hold
\* (NumLines + 1: the loop is over).
NextLine(c, i) ==
  IF \E j \in allLines : j >= i /\ ~CacheHas(c, j)
    THEN CHOOSE j \in allLines :
           /\ j >= i /\ ~CacheHas(c, j)
           /\ \A k \in allLines : (k >= i /\ ~CacheHas(c, k)) => j <= k
    ELSE NumLines + 1

\* attempt + 1. The code compares the counter with MAX_RETRIES only; values
\* above MAX_RETRIES are kept as MAX_RETRIES + 1 ("beyond the cap").
NextAttempt(attempt) == IF attempt > MAX_RETRIES THEN attempt ELSE attempt + 1

\* The retry test of the catch branch.
MayRetry(attempt) == attempt < MAX_RETRIES

\* The retry test of the 429 branch: there is none.
MayRetry429(attempt) == TRUE

\* The delay of the 429 branch, in ms.
RateLimitDelay(attempt) == INITIAL_RETRY_DELAY * attempt

\* FailureDelay without the factor: the same delay before every retry.
FailureDelay_Constant(attempt) == INITIAL_RETRY_DELAY

\* The delay of the catch branch, in ms.
FailureDelay(attempt) == INITIAL_RETRY_DELAY * attempt

\* SourceMissing without the getSource test: every success registers.
SourceMissing_Unguarded(srcs, line) == TRUE

\* map.getSource(sourceId) is falsy.
SourceMissing(srcs, line) == srcs[line] = <<>>

\* activeFilters[key] ?? true
FilterOn(filters, route) == IF route \in DOMAIN filters THEN filters[route] ELSE TRUE

\* What addLayer gives a layer that sets neither property: the style
\* defaults, visibility 'visible' and line-opacity 1.
DefaultStyle == [visibility |-> "visible", opacity |-> "1"]

\* What the visibility effect sets on a layer.
StyleFor(isVisible) ==
  [visibility |-> IF isVisible THEN "visible" ELSE "none",
   opacity |-> IF isVisible THEN "1" ELSE "0.5"]

\* map.getLayer(layerId)
LayerExists(lyrs, line) == lyrs[line] # <<>>

\* The visibility effect of TrainPaths with map m and the filters: the
\* styles it leaves, given the layers lyrs and their styles.
LayerEffect(m, filters, lyrs, style) ==
  IF m = NoMap THEN style
  ELSE [l \in allLines |->
          IF LayerExists(lyrs, l) THEN StyleFor(FilterOn(filters, l)) ELSE style[l]]

LoaderInit ==
  /\ tpMap = NoMap
  /\ routeDataCache = EmptyCache
  /\ sharedWith = 0
  /\ renderPending = FALSE
  /\ routesLoaded = FALSE
  /\ passes = <<>>
  /\ loadedCalls = 0
  /\ sources = [l \in allLines |-> <<>>]
  /\ layers = [l \in allLines |-> <<>>]
  /\ layerStyle = [l \in allLines |-> DefaultStyle]

\* Pass p of ps resumes its loop at position i: either it issues the request
\* for the next line its Map does not hold, or the loop is over and it runs
\* setRoutesLoaded(true); onRoutesLoaded() (no call is left, the attempt
\* number of the record is reset).
Resume(ps, p, i) ==
  LET j == NextLine(ps[p].cache, i) IN
  IF j <= NumLines
    THEN /\ passes' = [ps EXCEPT ![p] = [@ EXCEPT !.line = j, !.attempt = 1, !.pc = "fetch"]]
         /\ UNCHANGED <<routesLoaded, loadedCalls>>
    ELSE /\ passes' = [ps EXCEPT ![p] = [@ EXCEPT !.line = j, !.attempt = 1, !.pc = "done"]]
         /\ routesLoaded' = TRUE
         /\ loadedCalls' = loadedCalls + 1

\* The guard of the load effect.
EffectRuns(m, loaded) == m # NoMap /\ ~loaded

\* The load effect, run after a render whose map or fetchAndStoreRoute is
\* new: it starts a pass that closes over the map m and the state's Map.
LoadEffect(m) ==
  IF EffectRuns(m, routesLoaded)
    THEN /\ Len(passes) < MaxPasses
         /\ sharedWith' = Len(passes) + 1
         /\ Resume(Append(passes, [cache |-> Keys(routeDataCache), line |-> 1,
                                   attempt |-> 1, pc |-> "fetch", wait |-> 0]),
                   Len(passes) + 1, 1)
    ELSE UNCHANGED <<passes, routesLoaded, loadedCalls, sharedWith>>

\* The map prop becomes non-null: render, then the load effect and the
\* visibility effect run (both depend on map).
MapReady ==
  /\ tpMap = NoMap
  /\ tpMap' = 1
  /\ renderPending' = FALSE
  /\ LoadEffect(1)
  /\ layerStyle' = LayerEffect(1, activeFilters, layers, layerStyle)
  /\ UNCHANGED <<routeDataCache, sources, layers>>
  /\ UNCHANGED decoderVars
  /\ UNCHANGED pollerVars

\* A render that picks up a new routeDataCache: useCallback returns a new
\* fetchAndStoreRoute, so the effect that depends on it runs again.
Render ==
  /\ renderPending
  /\ renderPending' = FALSE
  /\ LoadEffect(tpMap)
  /\ UNCHANGED <<tpMap, routeDataCache, sources, layers, layerStyle>>
  /\ UNCHANGED decoderVars
  /\ UNCHANGED pollerVars

\* setRouteDataCache(prevCache => new Map(prevCache.set(line, geo))) by pass
\* p: prevCache.set changes the state's Map in place, so the pass that holds
\* that object sees the entry; the copy becomes the state.
StoreRoute(ps, p, line) ==
  IF sharedWith # 0
    THEN [ps EXCEPT ![sharedWith] = [@ EXCEPT !.cache = @ \cup {line}]]
    ELSE ps

\* The success path of fetchAndStoreRoute in pass p, then the loop goes on.
FetchOk(p) ==
  LET line == passes[p].line IN
  /\ routeDataCache' = [routeDataCache EXCEPT ![line] = @ + 1]
  /\ sharedWith' = 0
  /\ renderPending' = TRUE
  /\ IF SourceMissing(sources, line)
       THEN /\ sources' = [sources EXCEPT ![line] = Append(@, routeDataCache'[line])]
            /\ layers' = [layers EXCEPT ![line] = Append(@, routeDataCache'[line])]
            /\ layerStyle' = [layerStyle EXCEPT ![line] = DefaultStyle]
       ELSE UNCHANGED <<sources, layers, layerStyle>>
  /\ Resume(StoreRoute(passes, p, line), p, line + 1)
  /\ UNCHANGED tpMap

\* Status 429: await delay(...), then the call is repeated. wait is the
\* delay a pass awaits while its pc is "delay".
Fetch429(p) ==
  /\ IF MayRetry429(passes[p].attempt)
       THEN /\ passes' = [passes EXCEPT ![p] =
                            [@ EXCEPT !.pc = "delay",
                                      !.wait = RateLimitDelay(passes[p].attempt)]]
            /\ UNCHANGED <<routesLoaded, loadedCalls>>
       ELSE Resume(passes, p, passes[p].line + 1)
  /\ UNCHANGED <<tpMap, routeDataCache, sharedWith, renderPending, sources, layers,
                 layerStyle>>

\* Another non-ok status, a response without shape entries, a rejected fetch:
\* the catch branch retries after a delay or gives the line up.
FetchFail(p) ==
  /\ IF MayRetry(passes[p].attempt)
       THEN /\ passes' = [passes EXCEPT ![p] =
                            [@ EXCEPT !.pc = "delay",
                                      !.wait = FailureDelay(passes[p].attempt)]]
            /\ UNCHANGED <<routesLoaded, loadedCalls>>
       ELSE Resume(passes, p, passes[p].line + 1)
  /\ UNCHANGED <<tpMap, routeDataCache, sharedWith, renderPending, sources, layers,
                 layerStyle>>

Responses == {"ok", "429", "error", "noshape"}

\* The response to the request of pass p arrives; it is one of R.
ResponseIn(p, R) ==
  /\ p \in 1 .. Len(passes)
  /\ passes[p].pc = "fetch"
  /\ \E r \in R :
       CASE r = "ok" -> FetchOk(p)
         [] r = "429" -> Fetch429(p)
         [] OTHER -> FetchFail(p)
  /\ UNCHANGED decoderVars
  /\ UNCHANGED pollerVars

\* The same when the API may answer anything.
Response(p) == ResponseIn(p, Responses)

\* The delay of pass p is over: fetchAndStoreRoute(line, attempt + 1), which
\* returns at once when the closed-over Map holds the line by now.
DelayElapsed(p) ==
  /\ p \in 1 .. Len(passes)
  /\ passes[p].pc = "delay"
  /\ IF CacheHas(passes[p].cache, passes[p].line)
       THEN Resume([passes EXCEPT ![p].wait = 0], p, passes[p].line + 1)
       ELSE /\ passes' = [passes EXCEPT ![p] =
                            [@ EXCEPT !.attempt = NextAttempt(@), !.pc = "fetch",
                                      !.wait = 0]]
            /\ UNCHANGED <<routesLoaded, loadedCalls>>
  /\ UNCHANGED <<tpMap, routeDataCache, sharedWith, renderPending, sources, layers,
                 layerStyle>>
  /\ UNCHANGED decoderVars
  /\ UNCHANGED pollerVars

\* ---------------------------------------------------------- decodePolyline
\* A string is the sequence of its char codes. The bitwise operators of
\* JavaScript work on 32-bit two's complement integers; lat and lng are
\* numbers, added without wrapping. The quotients lng / 1e5 and lat / 1e5
\* are kept as their numerators, the coordinate in units of 1e-5 degree.

\* -2^31
MinInt32 == (-(2 ^ 30)) * 2

\* a | b
RECURSIVE Or32(_, _)
Or32(a, b) ==
  IF a = 0 THEN b
  ELSE IF b = 0 THEN a
  ELSE IF a = -1 \/ b = -1 THEN -1
  ELSE 2 * Or32(a \div 2, b \div 2) + (IF a % 2 = 1 \/ b % 2 = 1 THEN 1 ELSE 0)

\* x << shift: the count is taken modulo 32 and the bits shifted out of the
\* word are lost; the bit that reaches position 31 is the sign.
Shl32(x, shift) ==
  LET t == shift % 32
      half == 2 ^ (31 - t)
      low == x % half
      sign == (x \div half) % 2
  IN IF t = 0 THEN x
     ELSE (IF low = 0 THEN 0 ELSE low * (2 ^ t)) + (IF sign = 1 THEN MinInt32 ELSE 0)

\* (byte & 0x1f) for byte = encoded.charCodeAt(index) - 63; past the end of
\* the string charCodeAt gives NaN, and NaN & 0x1f is 0.
Chunk(str, index) ==
  IF index < Len(str) THEN (str[index + 1] - 63) % 32 ELSE 0

\* byte >= 0x20; NaN >= 0x20 is false.
More(str, index) == index < Len(str) /\ str[index + 1] - 63 >= 32

\* One do-while loop: the assembled result and the index after it.
RECURSIVE ReadValue(_, _, _, _)
ReadValue(str, index, shift, result) ==
  LET r == Or32(result, Shl32(Chunk(str, index), shift)) IN
  IF More(str, index)
    THEN ReadValue(str, index + 1, shift + 5, r)
    ELSE [result |-> r, index |-> index + 1]

\* ZigZag that drops the sign bit without negating.
ZigZag_Unsigned(result) == result \div 2

\* (result & 1 ? ~(result >> 1) : result >> 1)
ZigZag(result) ==
  IF result % 2 = 1 THEN -(result \div 2) - 1 ELSE result \div 2

\* The while loop from index on.
RECURSIVE DecodeFrom(_, _, _, _, _)
DecodeFrom(str, index, lat, lng, coords) ==
  IF index < Len(str)
    THEN LET a == ReadValue(str, index, 0, 0)
             lat2 == lat + ZigZag(a.result)
             b == ReadValue(str, a.index, 0, 0)
             lng2 == lng + ZigZag(b.result)
         IN DecodeFrom(str, b.index, lat2, lng2, Append(coords, <<lng2, lat2>>))
    ELSE coords

decodePolyline(str) == DecodeFrom(str, 0, 0, 0, <<>>)

\* The chars the bounded inputs are made of: ? @ A end a value with the
\* bits 0, 1, 2; _ ` ~ continue it with the bits 0, 1, 31.
EncodingChars == {63, 64, 65, 95, 96, 126}

\* "_p~iF~ps|U_ulLnnqC_mqNvxq`@"
Example ==
  <<95, 112, 126, 105, 70, 126, 112, 115, 124, 85, 95, 117, 108, 76,
    110, 110, 113, 67, 95, 109, 113, 78, 118, 120, 113, 96, 64>>

Encodings ==
  UNION {[1 .. n -> EncodingChars] : n \in 0 .. MaxEncodedLen} \cup {Example}

\* No call of decodePolyline is followed.
DecoderIdle ==
  /\ encoded = <<>>
  /\ decoded = FALSE
  /\ coordinates = <<>>

\* The call returns.
Decode ==
  /\ ~decoded
  /\ decoded' = TRUE
  /\ coordinates' = decodePolyline(encoded)
  /\ UNCHANGED <<encoded, tpMap, routeDataCache, sharedWith, renderPending,
                 routesLoaded, passes, loadedCalls, sources, layers, layerStyle>>
  /\ UNCHANGED pollerVars

\* ------------------------------------------------------ LiveTrainMarkers

VehicleIds == 1 .. NumVehicles
Maps == 1 .. NumMaps
TimerIds == 1 .. MaxTimers

\* The <<longitude, latitude>> pairs a vehicle may report; 0 is a missing
\* (falsy) coordinate.
Coords == {<<1, 1>>, <<2, 1>>, <<0, 1>>, <<1, 0>>}

\* The bearings a vehicle may report, in degrees.
Bearings == {0, 90}

\* One entry of the data array: id, relationships.route.data.id, and the
\* longitude, latitude and bearing of attributes (the label only feeds the
\* popup text and is not followed).
TrainData == [id : VehicleIds, route : allLines, lngLat : Coords, bearing : Bearings]

\* The data arrays made of entries of T.
PayloadsOf(T) == UNION {[1 .. k -> T] : k \in 0 .. MaxPayload}

\* What response.json() yields: an object with a data array, an object
\* without one, or a rejection (the body is no JSON).
BodiesOf(T) == {[kind |-> "data", data |-> d] : d \in PayloadsOf(T)}
                 \cup {[kind |-> "nodata"], [kind |-> "notjson"]}

\* The responses to a vehicles request whose entries are in T. Status 0:
\* fetch itself rejects (no response).
ResponsesOf(T) == {[status |-> 0, body |-> [kind |-> "notjson"]]}
                    \cup [status : {200, 429}, body : BodiesOf(T)]

\* The feed of the poller taken alone: every vehicle heads north.
Trains == {t \in TrainData : t.bearing = 0}

Payloads == PayloadsOf(Trains)

Bodies == BodiesOf(Trains)

PollResponses == ResponsesOf(Trains)

\* JSON.stringify(trainData.data): the fields of every entry, in order;
\* undefined when there is no data array.
JSONstringify(body) ==
  IF body.kind = "data"
    THEN [kind |-> "string",
          text |-> [k \in DOMAIN body.data |->
                      <<body.data[k].id, body.data[k].route,
                        body.data[k].lngLat[1], body.data[k].lngLat[2],
                        body.data[k].bearing>>]]
    ELSE [kind |-> "undefined"]

NoEntry == [marker |-> 0, route |-> 0, visible |-> FALSE]

\* Tracked without the has test: every entry is taken for a new vehicle.
Tracked_Never(reg, id) == FALSE

\* trainMarkers.current.has(trainId)
Tracked(reg, id) == reg[id] # NoEntry

\* !latitude || !longitude
NoCoords(train) == train.lngLat[2] = 0 \/ train.lngLat[1] = 0

\* Is429 with the status test lost: a 429 is handled like any response.
Is429_Never(status) == FALSE

\* response.status === 429
Is429(status) == status = 429

\* SameData with the comparison lost: every payload is processed.
SameData_Never(last, dataString) == FALSE

\* lastFetchedData.current === dataString
SameData(last, dataString) == last = dataString

\* UpsertTrain that records the visibility anew when it moves a marker.
UpsertTrain_ResetsFlag(train, closure, st) ==
  IF train.lngLat[2] = 0 \/ train.lngLat[1] = 0 THEN st
  ELSE IF st.reg[train.id] # [marker |-> 0, route |-> 0, visible |-> FALSE]
    THEN [st EXCEPT !.mks[train.id][st.reg[train.id].marker].lngLat = train.lngLat,
                    !.reg[train.id].route = train.route,
                    !.reg[train.id].visible =
                       IF train.route \in DOMAIN closure.filters
                         THEN closure.filters[train.route] ELSE TRUE,
                    !.moved = @ + 1]
    ELSE [st EXCEPT !.mks[train.id] = Append(@, [lngLat |-> train.lngLat,
                                                 rotation |-> train.bearing,
                                                 display |-> ""]),
                    !.reg[train.id] = [marker |-> Len(st.mks[train.id]) + 1,
                                       route |-> train.route,
                                       visible |->
                                         IF train.route \in DOMAIN closure.filters
                                           THEN closure.filters[train.route] ELSE TRUE],
                    !.created = @ + 1]

\* The body of the forEach callback for one entry. st holds the registry
\* (reg), the Marker objects (mks) and how many markers this response has
\* created and how many setLngLat calls it has made on tracked ones. A
\* Marker is identified by the vehicle it was created for and its rank among
\* that vehicle's markers; the map it was added to is not followed. A new
\* Marker carries its position, its rotation and the display style of its
\* element, which createElement leaves empty (shown).
UpsertTrain(train, closure, st) ==
  IF NoCoords(train) THEN st
  ELSE IF Tracked(st.reg, train.id)
    THEN [st EXCEPT !.mks[train.id][st.reg[train.id].marker].lngLat = train.lngLat,
                    !.moved = @ + 1]
    ELSE [st EXCEPT !.mks[train.id] = Append(@, [lngLat |-> train.lngLat,
                                                 rotation |-> train.bearing,
                                                 display |-> ""]),
                    !.reg[train.id] = [marker |-> Len(st.mks[train.id]) + 1,
                                       route |-> train.route,
                                       visible |-> FilterOn(closure.filters, train.route)],
                    !.created = @ + 1]

RECURSIVE ForEachTrain(_, _, _)
\* trainData.data.forEach(...)
ForEachTrain(data, closure, st) ==
  IF data = <<>> THEN st
  ELSE ForEachTrain(Tail(data), closure, UpsertTrain(Head(data), closure, st))

\* lastPoll when the step just taken handled no vehicles response.
NoPoll == [status |-> "none", same |-> FALSE, created |-> 0, moved |-> 0]

PollerInit ==
  /\ ltmMap = NoMap
  /\ mounted = TRUE
  /\ activeFilters = <<>>
  /\ intervalRef = 0
  /\ timers = {}
  /\ polls = EmptyBag
  /\ lastFetchedData = [kind |-> "null"]
  /\ trainMarkers = [v \in VehicleIds |-> NoEntry]
  /\ markers = [v \in VehicleIds |-> <<>>]
  /\ lastPoll = NoPoll

\* !intervalRef.current
NotStarted(ref) == ref = 0

\* The handle setInterval returns: one that is not live.
FreeTimer(tms) == CHOOSE h \in TimerIds : \A t \in tms : t.id # h

\* The start effect with map m; st holds intervalRef (ref), the live timers
\* and the requests in flight. fetchLiveTrains() issues a request at once.
StartEffect(m, filters, st) ==
  IF m = NoMap THEN st
  ELSE IF NotStarted(st.ref)
    THEN LET c == [map |-> m, filters |-> filters]
             h == FreeTimer(st.timers)
         IN [ref |-> h,
             timers |-> st.timers \cup {[id |-> h, closure |-> c]},
             polls |-> st.polls (+) SetToBag({c})]
    ELSE st

\* ClearInterval that clears nothing: the cleanup only resets intervalRef.
ClearInterval_Noop(tms, h) == tms

\* clearInterval(h)
ClearInterval(tms, h) == {t \in tms : t.id # h}

\* The cleanup the start effect returns.
Cleanup(st) ==
  IF st.ref # 0
    THEN [st EXCEPT !.timers = ClearInterval(@, st.ref), !.ref = 0]
    ELSE st

\* The effect returns its cleanup only past `if (!map) return`.
CleanupIfAny(m, st) == IF m # NoMap THEN Cleanup(st) ELSE st

TimerState == [ref |-> intervalRef, timers |-> timers, polls |-> polls]

\* The model can follow st: a timer handle was free and the requests in
\* flight are within the bound.
Within(st) == BagCardinality(st.polls) <= MaxInFlight

SetTimerState(st) ==
  /\ Within(st)
  /\ intervalRef' = st.ref
  /\ timers' = st.timers
  /\ polls' = st.polls

CanStart(st) == \E h \in TimerIds : \A t \in st.timers : t.id # h

\* The map prop changes to m: the previous cleanup, then the effect.
SetMap(m) ==
  /\ mounted
  /\ m # ltmMap
  /\ ltmMap' = m
  /\ LET st == CleanupIfAny(ltmMap, TimerState) IN
       /\ CanStart(st)
       /\ SetTimerState(StartEffect(m, activeFilters, st))
  /\ lastPoll' = NoPoll
  /\ UNCHANGED <<mounted, activeFilters, lastFetchedData, trainMarkers, markers>>
  /\ UNCHANGED loaderVars

\* React runs the start effect again with the same map: cleanup, then effect.
EffectRerun ==
  /\ mounted
  /\ ltmMap # NoMap
  /\ LET st == CleanupIfAny(ltmMap, TimerState) IN
       /\ CanStart(st)
       /\ SetTimerState(StartEffect(ltmMap, activeFilters, st))
  /\ lastPoll' = NoPoll
  /\ UNCHANGED <<ltmMap, mounted, activeFilters, lastFetchedData, trainMarkers, markers>>
  /\ UNCHANGED loaderVars

\* The component is unmounted: the last cleanup runs.
Unmount ==
  /\ mounted
  /\ mounted' = FALSE
  /\ SetTimerState(CleanupIfAny(ltmMap, TimerState))
  /\ lastPoll' = NoPoll
  /\ UNCHANGED <<ltmMap, activeFilters, lastFetchedData, trainMarkers, markers>>
  /\ UNCHANGED loaderVars

\* The interval timer t fires: fetchLiveTrains() of its closure issues a
\* request.
Tick(t) ==
  /\ t \in timers
  /\ BagCardinality(polls) < MaxInFlight
  /\ polls' = polls (+) SetToBag({t.closure})
  /\ lastPoll' = NoPoll
  /\ UNCHANGED <<ltmMap, mounted, activeFilters, intervalRef, timers,
                 lastFetchedData, trainMarkers, markers>>
  /\ UNCHANGED loaderVars

\* fetchLiveTrains of closure c from the response r on: what it leaves in
\* lastFetchedData, the registry and the markers.
HandleVehicles(c, r) ==
  LET quiet == [last |-> lastFetchedData, reg |-> trainMarkers, mks |-> markers,
                created |-> 0, moved |-> 0]
  IN
  IF r.status = 0 THEN quiet                       \* fetch rejected: catch
  ELSE IF Is429(r.status) THEN quiet               \* skip this fetch
  ELSE IF r.body.kind = "notjson" THEN quiet       \* json() rejected: catch
  ELSE IF SameData(lastFetchedData, JSONstringify(r.body)) THEN quiet
  ELSE IF r.body.kind = "nodata"
    THEN [quiet EXCEPT !.last = JSONstringify(r.body)]   \* forEach of undefined: catch
  ELSE [ForEachTrain(r.body.data, c, quiet) EXCEPT !.last = JSONstringify(r.body)]

\* The response to a request of closure c arrives and is handled. lastPoll
\* tells of the step just taken: whether the status was 429, whether the
\* serialized data equalled the stored serialization, and how many markers
\* the handler created and how many setLngLat calls it made.
PollResponseIn(c, R) ==
  /\ BagIn(c, polls)
  /\ polls' = polls (-) SetToBag({c})
  /\ \E r \in R :
       LET out == HandleVehicles(c, r) IN
       /\ lastFetchedData' = out.last
       /\ trainMarkers' = out.reg
       /\ markers' = out.mks
       /\ lastPoll' = [status |-> IF r.status = 429 THEN "429" ELSE "other",
                       same |-> r.body.kind # "notjson"
                                  /\ JSONstringify(r.body) = lastFetchedData,
                       created |-> out.created,
                       moved |-> out.moved]
  /\ UNCHANGED <<ltmMap, mounted, activeFilters, intervalRef, timers>>
  /\ UNCHANGED loaderVars

\* The same under the feed of the poller taken alone.
PollResponse(c) == PollResponseIn(c, PollResponses)

\* ShowOrHide that drops the entry of a vehicle whose line is off.
ShowOrHide_Drops(entry, display, filters) ==
  IF ~FilterOn(filters, entry.route)
    THEN [entry |-> [marker |-> 0, route |-> 0, visible |-> FALSE], display |-> "none"]
  ELSE IF entry.visible = FALSE
    THEN [entry |-> [entry EXCEPT !.visible = TRUE], display |-> "block"]
  ELSE [entry |-> entry, display |-> display]

\* ShowOrHide without the branch that shows: a hidden marker stays hidden.
ShowOrHide_NeverShown(entry, display, filters) ==
  IF ~FilterOn(filters, entry.route)
    THEN [entry |-> [entry EXCEPT !.visible = FALSE], display |-> "none"]
    ELSE [entry |-> entry, display |-> display]

\* The visibility effect of LiveTrainMarkers for one registry entry and the
\* display style of its marker's element: shown again when the line is on
\* and the entry was recorded hidden, hidden when the line is off, left
\* alone otherwise.
ShowOrHide(entry, display, filters) ==
  LET isRouteVisible == FilterOn(filters, entry.route)
      wasPreviouslyHidden == entry.visible = FALSE
  IN IF isRouteVisible /\ wasPreviouslyHidden
       THEN [entry |-> [entry EXCEPT !.visible = TRUE], display |-> "block"]
     ELSE IF ~isRouteVisible
       THEN [entry |-> [entry EXCEPT !.visible = FALSE], display |-> "none"]
     ELSE [entry |-> entry, display |-> display]

\* The visibility effect of LiveTrainMarkers with map m and the filters, on
\* the registry reg and the markers mks: trainMarkers.current.forEach(...).
MarkerEffect(m, filters, reg, mks) ==
  IF m = NoMap THEN [reg |-> reg, mks |-> mks]
  ELSE [reg |-> [v \in VehicleIds |->
                   IF reg[v] # NoEntry
                     THEN ShowOrHide(reg[v], mks[v][reg[v].marker].display,
                                     filters).entry
                     ELSE reg[v]],
        mks |-> [v \in VehicleIds |->
                   IF reg[v] # NoEntry
                     THEN [mks[v] EXCEPT ![reg[v].marker].display =
                             ShowOrHide(reg[v], @, filters).display]
                     ELSE mks[v]]]

\* The VisibilityState with the entry of line set to on.
SetLine(filters, line, on) ==
  [k \in DOMAIN filters \cup {line} |-> IF k = line THEN on ELSE filters[k]]

\* The toggle of a line is set: both components render with the new
\* activeFilters and their visibility effects run. A component that is
\* unmounted runs no effect.
ToggleLine(line, on) ==
  /\ ~(line \in DOMAIN activeFilters /\ activeFilters[line] = on)
  /\ activeFilters' = SetLine(activeFilters, line, on)
  /\ layerStyle' = LayerEffect(tpMap, activeFilters', layers, layerStyle)
  /\ LET out == IF mounted
                  THEN MarkerEffect(ltmMap, activeFilters', trainMarkers, markers)
                  ELSE [reg |-> trainMarkers, mks |-> markers]
     IN /\ trainMarkers' = out.reg
        /\ markers' = out.mks
  /\ lastPoll' = NoPoll
  /\ UNCHANGED <<ltmMap, mounted, intervalRef, timers, polls, lastFetchedData>>
  /\ UNCHANGED <<tpMap, routeDataCache, sharedWith, renderPending, routesLoaded,
                 passes, loadedCalls, sources, layers, decoderVars>>

PollerNext ==
  \/ \E m \in {NoMap} \cup Maps : SetMap(m)
  \/ EffectRerun
  \/ Unmount
  \/ \E t \in timers : Tick(t)
  \/ \E c \in BagToSet(polls) : PollResponse(c)

Init == LoaderInit /\ PollerInit /\ DecoderIdle

PollerSpec == Init /\ [][PollerNext]_vars

LoaderNext ==
  \/ MapReady
  \/ Render
  \/ \E p \in 1 .. MaxPasses : Response(p)
  \/ \E p \in 1 .. MaxPasses : DelayElapsed(p)

LoaderSpec == Init /\ [][LoaderNext]_vars

\* The loader under the scheduling the event loop gives: a pending render is
\* made, a response that the network delivers is handled, a delay that has
\* elapsed resumes its pass.
FairLoaderSpec ==
  /\ LoaderSpec
  /\ WF_vars(MapReady)
  /\ WF_vars(Render)
  /\ \A p \in 1 .. MaxPasses : WF_vars(Response(p)) /\ WF_vars(DelayElapsed(p))

\* ------------------------------------------- the poller with the toggles
\* LiveTrainMarkers from its start to its unmount, with the toggles of the
\* first line: the map is handed over once, the API answers every request
\* with a data array of vehicles that head north and report both coordinates.
MarkerFeed == {t \in TrainData : t.bearing = 0 /\ ~NoCoords(t)}

MarkerResponses ==
  {r \in ResponsesOf(MarkerFeed) : r.status = 200 /\ r.body.kind = "data"}

\* The map prop becomes non-null.
PollerStart ==
  /\ ltmMap = NoMap
  /\ SetMap(1)

MarkerNext ==
  \/ PollerStart
  \/ Unmount
  \/ \E t \in timers : Tick(t)
  \/ \E c \in BagToSet(polls) : PollResponseIn(c, MarkerResponses)
  \/ \E on \in BOOLEAN : ToggleLine(1, on)

MarkerSpec == Init /\ [][MarkerNext]_vars

\* ------------------------------------------- the loader with the toggles
\* TrainPaths with the toggles of every line.
LayerNext ==
  \/ LoaderNext
  \/ \E l \in allLines, on \in BOOLEAN : ToggleLine(l, on)

LayerSpec == Init /\ [][LayerNext]_vars

\* ------------------------------------------- the poller with the bearings
\* LiveTrainMarkers once started, fed with vehicles of the first line that
\* report both coordinates and either bearing.
HeadingFeed == {t \in TrainData : t.route = 1 /\ ~NoCoords(t)}

HeadingResponses ==
  {r \in ResponsesOf(HeadingFeed) : r.status = 200 /\ r.body.kind = "data"}

HeadingNext ==
  \/ PollerStart
  \/ \E t \in timers : Tick(t)
  \/ \E c \in BagToSet(polls) : PollResponseIn(c, HeadingResponses)

HeadingSpec == Init /\ [][HeadingNext]_vars

\* ------------------------------------------------------------ one session
\* Both components under the Map component that renders them: it hands the
\* map to TrainPaths when the map is built and starts LiveTrainMarkers on
\* the same map once TrainPaths has signalled that the routes are loaded.
\* The components stay mounted, the route API answers every request with
\* shapes, and the first line is toggled.

\* RoutesReady with the gate open from the start.
RoutesReady_Always(calls) == TRUE

\* The readiness the Map component derives from onRoutesLoaded.
RoutesReady(calls) == calls >= 1

\* LiveTrainMarkers is started on the map of the session.
ReadyStart ==
  /\ RoutesReady(loadedCalls)
  /\ ltmMap = NoMap
  /\ SetMap(tpMap)

SessionNext ==
  \/ MapReady
  \/ Render
  \/ \E p \in 1 .. MaxPasses : ResponseIn(p, {"ok"})
  \/ ReadyStart
  \/ \E t \in timers : Tick(t)
  \/ \E c \in BagToSet(polls) : PollResponseIn(c, MarkerResponses)
  \/ \E on \in BOOLEAN : ToggleLine(1, on)

SessionSpec == Init /\ [][SessionNext]_vars

\* A call of decodePolyline with one of the encodings.
DecodeInit ==
  /\ LoaderInit
  /\ PollerInit
  /\ encoded \in Encodings
  /\ decoded = FALSE
  /\ coordinates = <<>>

\* decodePolyline called on each of the encodings.
DecodeSpec == DecodeInit /\ [][Decode]_vars

\* ---------------------------------------------------------------- claims

\* The requests for route shapes awaiting their response.
InFlight == {p \in 1 .. Len(passes) : passes[p].pc = "fetch"}

\* C1: in one session onRoutesLoaded is invoked at most once.
C1_CompletionAtMostOnce == loadedCalls <= 1

\* C2: the load sequence terminates whatever the API answers: the completion
\* callback onRoutesLoaded is eventually invoked.
C2_LoadTerminates == <>(loadedCalls >= 1)

\* C3: the attempt counter of a line never exceeds MAX_RETRIES, so a line
\* that fails on every attempt is requested MAX_RETRIES times and given up.
C3_AttemptsCapped == \A p \in 1 .. Len(passes) : passes[p].attempt <= MAX_RETRIES

\* C5: at any moment at most one route-shape request is in flight.
C5_OneRequestInFlight == Cardinality(InFlight) <= 1

\* Some pass issues a request for line l in this step.
RequestIssued(l) ==
  \E p \in 1 .. Len(passes') :
    /\ passes'[p].pc = "fetch"
    /\ passes'[p].line = l
    /\ \/ p > Len(passes)
       \/ passes[p].pc # "fetch"
       \/ passes[p].line # l

\* C6: once a line's shape is stored in the shape cache, its entry is never
\* replaced and no further request for that line is issued.
C6_FetchedOnce ==
  [][\A l \in allLines :
       routeDataCache[l] # 0 =>
         /\ routeDataCache'[l] = routeDataCache[l]
         /\ ~RequestIssued(l)]_vars

\* C7: every line has at most one registered source and one registered layer,
\* and exactly one of each once its shape is stored, however many times the
\* success path ran for it.
C7_OneSourceOneLayer ==
  \A l \in allLines :
    /\ Len(sources[l]) <= 1
    /\ Len(layers[l]) <= 1
    /\ routeDataCache[l] # 0 => (Len(sources[l]) = 1 /\ Len(layers[l]) = 1)

\* The success path ran twice for one line: the stored shape is not the data
\* the source was registered with.
C7_Witness ==
  \E l \in allLines :
    /\ Len(sources[l]) = 1
    /\ Len(layers[l]) = 1
    /\ routeDataCache[l] # 0
    /\ routeDataCache[l] # sources[l][1]

\* C4: at most one interval timer is live, it is the one intervalRef holds,
\* and none is live while the map is null or after the unmount.
C4_OneTimer ==
  /\ Cardinality(timers) <= 1
  /\ \A t \in timers : t.id = intervalRef
  /\ intervalRef # 0 => timers # {}
  /\ (~mounted \/ ltmMap = NoMap) => (timers = {} /\ intervalRef = 0)

\* The map instance changed while polling and the component was unmounted
\* after that: a request issued for an earlier map is still in flight, vehicles
\* are tracked, and no timer is left.
C4_Witness ==
  /\ ~mounted
  /\ ltmMap # NoMap
  /\ timers = {}
  /\ intervalRef = 0
  /\ \E c \in BagToSet(polls) : c.map # ltmMap
  /\ \E v \in VehicleIds : trainMarkers[v] # NoEntry

\* C8: each vehicle identifier has at most one marker: a vehicle is tracked
\* exactly when one marker was created for it, its registry entry names that
\* marker, and later responses move it instead of creating another.
C8_OneMarkerPerVehicle ==
  \A v \in VehicleIds :
    /\ Len(markers[v]) <= 1
    /\ trainMarkers[v] # NoEntry <=> Len(markers[v]) = 1
    /\ trainMarkers[v] # NoEntry => trainMarkers[v].marker = 1

\* A tracked vehicle was reported again, with other requests still in flight:
\* its marker was moved and none was created.
C8_Witness ==
  /\ lastPoll.moved = 1
  /\ lastPoll.created = 0
  /\ ~lastPoll.same
  /\ BagCardinality(polls) >= 1
  /\ \E v \in VehicleIds : trainMarkers[v] # NoEntry /\ markers[v][1].lngLat = <<2, 1>>

\* C9: a response whose serialized data equals the stored serialization
\* creates no marker, moves no marker and leaves the registry as it is.
C9_SamePayloadNoMutation ==
  [][lastPoll'.same =>
       /\ lastPoll'.created = 0
       /\ lastPoll'.moved = 0
       /\ UNCHANGED <<trainMarkers, markers, lastFetchedData>>]_vars

\* A payload that reports a tracked vehicle was fed a second time.
C9_Witness ==
  /\ lastPoll.same
  /\ lastPoll.status = "other"
  /\ lastFetchedData.kind = "string"
  /\ \E k \in DOMAIN lastFetchedData.text :
       /\ trainMarkers[lastFetchedData.text[k][1]] # NoEntry
       /\ lastFetchedData.text[k][3] # 0
       /\ lastFetchedData.text[k][4] # 0

\* C10: a response with status 429 ends its cycle: one request less is in
\* flight (none is issued in its place), the registry, the markers and the
\* stored serialization are unchanged, and the timer stays live.
C10_RateLimitSkipsCycle ==
  [][lastPoll'.status = "429" =>
       /\ BagCardinality(polls') = BagCardinality(polls) - 1
       /\ lastPoll'.created = 0
       /\ lastPoll'.moved = 0
       /\ UNCHANGED <<trainMarkers, markers, lastFetchedData, timers, intervalRef>>]_vars

\* A 429 arrived while polling, with vehicles tracked and the timer live.
C10_Witness ==
  /\ lastPoll.status = "429"
  /\ timers # {}
  /\ lastFetchedData.kind = "string"
  /\ \E v \in VehicleIds : trainMarkers[v] # NoEntry

\* The position of every marker created so far.
Positions == [v \in VehicleIds |-> [k \in DOMAIN markers[v] |-> markers[v][k].lngLat]]

\* C11: a toggle issues no request, neither for a route nor for vehicles, and
\* leaves the shape cache and the marker positions as they are; and when it
\* turns a line from off to on, the layer of that line ends visible with
\* opacity 1 and every tracked marker of that line ends displayed, with its
\* visible flag true.
C11_ToggleRoundTrip ==
  [][activeFilters' # activeFilters =>
       /\ polls' = polls
       /\ passes' = passes
       /\ routeDataCache' = routeDataCache
       /\ Positions' = Positions
       /\ \A l \in allLines :
            (~FilterOn(activeFilters, l) /\ FilterOn(activeFilters', l)) =>
              /\ LayerExists(layers', l) => layerStyle'[l] = StyleFor(TRUE)
              /\ \A v \in VehicleIds :
                   (trainMarkers'[v] # NoEntry /\ trainMarkers'[v].route = l) =>
                     /\ trainMarkers'[v].visible
                     /\ markers'[v][trainMarkers'[v].marker].display # "none"]_vars

\* The first line was turned off and on again with its layer drawn, a vehicle
\* of the line tracked and a vehicles request in flight: the marker is shown
\* again and the layer is visible.
C11_Witness ==
  /\ 1 \in DOMAIN activeFilters
  /\ activeFilters[1]
  /\ lastPoll = NoPoll
  /\ LayerExists(layers, 1)
  /\ layerStyle[1] = StyleFor(TRUE)
  /\ polls # EmptyBag
  /\ \E v \in VehicleIds :
       /\ trainMarkers[v] # NoEntry
       /\ trainMarkers[v].route = 1
       /\ trainMarkers[v].visible
       /\ markers[v][1].display = "block"

\* C12: while onRoutesLoaded has not been invoked, no vehicles request is
\* in flight and no polling timer exists.
C12_PollingAfterLoad ==
  loadedCalls = 0 => (polls = EmptyBag /\ timers = {} /\ intervalRef = 0)

\* The routes were signalled loaded and the poller runs: its timer is live
\* and a vehicles request is in flight.
C12_Witness ==
  /\ loadedCalls >= 1
  /\ timers # {}
  /\ intervalRef # 0
  /\ polls # EmptyBag

\* The reference decoder of the polyline format, on a well-formed string: the
\* string is a sequence of values, each a run of chars that ends with the
\* first char whose code less 63 is below 32; a value is the sum of its
\* 5-bit groups, the first the least significant; an odd value v stands for
\* -(v + 1) / 2 and an even one for v / 2; the values are in turn the
\* differences of latitude and of longitude to the point before.
RECURSIVE RefValue(_)
RefValue(group) ==
  IF group = <<>> THEN 0
  ELSE ((Head(group) - 63) % 32) + 32 * RefValue(Tail(group))

ValueEnds(str) == {i \in 1 .. Len(str) : str[i] - 63 < 32}

FirstEnd(str) == CHOOSE i \in ValueEnds(str) : \A j \in ValueEnds(str) : i <= j

RECURSIVE RefValues(_)
RefValues(str) ==
  IF str = <<>> THEN <<>>
  ELSE <<RefValue(SubSeq(str, 1, FirstEnd(str)))>>
         \o RefValues(SubSeq(str, FirstEnd(str) + 1, Len(str)))

RefDelta(v) == IF v % 2 = 1 THEN -((v + 1) \div 2) ELSE v \div 2

RECURSIVE RefPoints(_, _, _)
RefPoints(values, lat, lng) ==
  IF values = <<>> THEN <<>>
  ELSE LET lat2 == lat + RefDelta(values[1])
           lng2 == lng + RefDelta(values[2])
       IN <<(<<lng2, lat2>>)>> \o RefPoints(SubSeq(values, 3, Len(values)), lat2, lng2)

ReferenceDecode(str) == RefPoints(RefValues(str), 0, 0)

\* A well-formed encoding: chars of the format only, every value complete
\* and of at most six chars (30 bits), and as many latitudes as longitudes.
WellFormed(str) ==
  /\ \A i \in 1 .. Len(str) : str[i] \in 63 .. 126
  /\ str # <<>> => Len(str) \in ValueEnds(str)
  /\ Cardinality(ValueEnds(str)) % 2 = 0
  /\ \A i \in 1 .. Len(str) :
       i + 5 <= Len(str) => \E j \in i .. i + 5 : j \in ValueEnds(str)

\* [[-120.2, 38.5], [-120.95, 40.7], [-126.453, 43.252]]
ExampleCoordinates ==
  <<(<<-12020000, 3850000>>), (<<-12095000, 4070000>>), (<<-12645300, 4325200>>)>>

\* C13: on every well-formed encoding decodePolyline returns what the
\* reference decoder returns, one (longitude, latitude) pair per point in
\* order; the example of the format decodes to its three known points.
C13_DecodesPolyline ==
  decoded =>
    /\ WellFormed(encoded) => coordinates = ReferenceDecode(encoded)
    /\ encoded = Example => coordinates = ExampleCoordinates

\* The example was decoded: three points, the longitudes negative.
C13_Witness ==
  /\ decoded
  /\ encoded = Example
  /\ WellFormed(encoded)
  /\ Len(coordinates) = 3
  /\ coordinates[1][1] < 0

\* C14: the visible flag recorded with a marker that a poll creates is the
\* value the VisibilityState holds for the vehicle's line at that moment.
C14_VisibleFlagAtCreation ==
  [][\A v \in VehicleIds :
       (trainMarkers[v] = NoEntry /\ trainMarkers'[v] # NoEntry) =>
         trainMarkers'[v].visible = FilterOn(activeFilters', trainMarkers'[v].route)]_vars

\* C15: a vehicles response leaves the registry entry of every vehicle that
\* was tracked before it as it is (marker instance, owning line, visible
\* flag), creates no second marker for it and leaves the display style of
\* its marker alone; a response that only moves markers changes no registry
\* entry at all.
C15_UpdateMovesOnly ==
  [][lastPoll' # NoPoll =>
       /\ \A v \in VehicleIds :
            trainMarkers[v] # NoEntry =>
              /\ trainMarkers'[v] = trainMarkers[v]
              /\ Len(markers'[v]) = Len(markers[v])
              /\ \A k \in DOMAIN markers[v] :
                   markers'[v][k].display = markers[v][k].display
       /\ (lastPoll'.moved >= 1 /\ lastPoll'.created = 0) =>
            trainMarkers' = trainMarkers]_vars

\* A vehicle that is tracked, of a line toggled off and hidden, was reported
\* at another position: its marker was moved and is still hidden.
C15_Witness ==
  /\ lastPoll.moved = 1
  /\ lastPoll.created = 0
  /\ lastFetchedData.kind = "string"
  /\ LET v == lastFetchedData.text[1][1] IN
       /\ trainMarkers[v] # NoEntry
       /\ ~trainMarkers[v].visible
       /\ markers[v][1].display = "none"
       /\ markers[v][1].lngLat = <<2, 1>>
       /\ markers[v][1].lngLat = <<lastFetchedData.text[1][3], lastFetchedData.text[1][4]>>

\* C16: once a vehicles response is processed, the marker of every vehicle
\* it reports stands at the reported position and is rotated to the
\* reported bearing (the last entry of a vehicle counts).
C16_HeadingFollowsBearing ==
  lastFetchedData.kind = "string" =>
    \A k \in DOMAIN lastFetchedData.text :
      LET entry == lastFetchedData.text[k]
          v == entry[1]
      IN (~\E j \in DOMAIN lastFetchedData.text : j > k /\ lastFetchedData.text[j][1] = v)
           => /\ trainMarkers[v] # NoEntry
              /\ markers[v][trainMarkers[v].marker].lngLat = <<entry[3], entry[4]>>
              /\ markers[v][trainMarkers[v].marker].rotation = entry[5]

\* C17: the delay a pass awaits after attempt n of a line is
\* INITIAL_RETRY_DELAY * n, whichever failure sent it there (for every n the
\* attempt counter follows, n <= MAX_RETRIES), and a further attempt for a
\* line is only issued by a pass that has awaited its delay.
C17_LinearBackoff ==
  [][\A p \in 1 .. Len(passes) :
       /\ (passes[p].pc = "fetch" /\ passes'[p].pc = "delay"
             /\ passes[p].attempt <= MAX_RETRIES) =>
            /\ passes'[p].wait = 500 * passes[p].attempt
            /\ passes'[p].attempt = passes[p].attempt
            /\ passes'[p].line = passes[p].line
       /\ (passes'[p].pc = "fetch" /\ passes'[p].attempt > 1
             /\ (passes[p].pc # "fetch" \/ passes[p].attempt # passes'[p].attempt)) =>
            /\ passes[p].pc = "delay"
            /\ passes[p].wait > 0
            /\ passes[p].line = passes'[p].line]_vars

\* A pass awaits the delay after attempt MAX_RETRIES of a line, which only
\* the 429 branch grants, while the other pass awaits a shorter one.
C17_Witness ==
  \E p, q \in 1 .. Len(passes) :
    /\ passes[p].pc = "delay"
    /\ passes[p].attempt = MAX_RETRIES
    /\ passes[p].wait = 10000
    /\ passes[q].pc = "delay"
    /\ passes[q].attempt = 2
    /\ passes[q].wait = 1000

\* C18: while LiveTrainMarkers runs, every tracked marker of a line that is
\* off in the VisibilityState is hidden and every tracked marker of a line
\* that is on or absent is displayed, also a marker created after the last
\* toggle.
C18_MarkersFollowFilters ==
  (mounted /\ ltmMap # NoMap) =>
    \A v \in VehicleIds :
      trainMarkers[v] # NoEntry =>
        (markers[v][trainMarkers[v].marker].display = "none"
           <=> ~FilterOn(activeFilters, trainMarkers[v].route))

\* C19: once TrainPaths has its map, every existing route layer has
\* visibility 'visible' and opacity 1 when its line is on or absent and
\* visibility 'none' and opacity 0.5 when its line is off, also a layer
\* registered after the last toggle.
C19_LayersFollowFilters ==
  tpMap # NoMap =>
    \A l \in allLines :
      LayerExists(layers, l) => layerStyle[l] = StyleFor(FilterOn(activeFilters, l))

\* C20: the registry only grows: the entry of a tracked vehicle stays, with
\* the same marker and the same owning line, and no marker is removed,
\* whatever the step: a poll, a toggle, the unmount.
C20_RegistryOnlyGrows ==
  [][\A v \in VehicleIds :
       trainMarkers[v] # NoEntry =>
         /\ trainMarkers'[v] # NoEntry
         /\ trainMarkers'[v].marker = trainMarkers[v].marker
         /\ trainMarkers'[v].route = trainMarkers[v].route
         /\ Len(markers'[v]) >= Len(markers[v])]_vars

\* After the unmount a vehicle of the first line is still tracked, hidden by
\* a toggle, though the last response processed reported another vehicle
\* under that vehicle's line.
C20_Witness ==
  /\ ~mounted
  /\ timers = {}
  /\ lastFetchedData.kind = "string"
  /\ Len(lastFetchedData.text) = 1
  /\ \E v \in VehicleIds :
       /\ trainMarkers[v] # NoEntry
       /\ trainMarkers[v].route = 1
       /\ ~trainMarkers[v].visible
       /\ markers[v][1].display = "none"
       /\ lastFetchedData.text[1][1] # v
       /\ lastFetchedData.text[1][2] = 1

====
